---- MODULE Spec2Model ----
(***************************************************************************)
(* Model of scripts/fix_ic_launcher_png.py: the launcher icons of the five *)
(* mipmap directories are re-encoded in place, one after the other, each   *)
(* through a temporary sibling file and a rename.                          *)
(*                                                                         *)
(* The file system is a function from paths to file contents.  One run of  *)
(* the script is the sequence of steps import, loop head, open+convert,    *)
(* save, replace, except handler; the script may be started again after it *)
(* exited.  Decoding fails exactly on files that are no image; saving and  *)
(* replacing may fail because of the environment (an I/O fault).           *)
(***************************************************************************)
EXTENDS Integers, Sequences, FiniteSets

\* ------------------------------------------------------------------ bounds
\* How many times the script is started in one behaviour.
MaxRuns == 2
\* How many I/O faults (failing save or replace) the environment injects.
MaxFaults == 1

\* --------------------------------------------------------------- constants
\* A bug: two entries of the list change places.
MIPMAP_DIRS_Swapped ==
    <<"mipmap-mdpi", "mipmap-xhdpi", "mipmap-hdpi", "mipmap-xxhdpi", "mipmap-xxxhdpi">>

MIPMAP_DIRS ==
    <<"mipmap-mdpi", "mipmap-hdpi", "mipmap-xhdpi", "mipmap-xxhdpi", "mipmap-xxxhdpi">>

ICON_NAME == [stem |-> "ic_launcher", suffix |-> ".png"]

TMP_SUFFIX == ".tmp.png"

DirIdx == 1..Len(MIPMAP_DIRS)

\* RES_BASE / d / ICON_NAME
IconPath(d) == [dir |-> d, stem |-> ICON_NAME.stem, suffix |-> ICON_NAME.suffix]

\* A bug: the temporary path is the target path itself.
WithSuffixSame(p, s) == p

\* Path.with_suffix: the last suffix of the name is replaced.
WithSuffix(p, s) == [p EXCEPT !.suffix = s]

\* tmp = path.with_suffix(".tmp.png")
TmpPath(p) == WithSuffix(p, TMP_SUFFIX)

Paths ==
    {IconPath(MIPMAP_DIRS[j]) : j \in DirIdx}
        \cup {TmpPath(IconPath(MIPMAP_DIRS[j])) : j \in DirIdx}

\* ----------------------------------------------------------- file contents
Absent == [fmt |-> "none"]
\* Bytes that are no image in any format.
Garbage == [fmt |-> "garbage"]
\* A PNG whose write stopped midway.
Partial == [fmt |-> "partial"]

Opaque == 255

\* An indexed PNG with a tRNS chunk: palette entries carry their alpha.
IndexedPNG ==
    [fmt |-> "PNG", mode |-> "P", size |-> <<2, 1>>,
     pal |-> << <<255, 0, 0, 255>>, <<0, 0, 255, 0>> >>,
     px |-> <<2, 1>>, meta |-> {"tEXt", "iCCP"}]

GrayPNG ==
    [fmt |-> "PNG", mode |-> "L", size |-> <<1, 2>>, pal |-> <<>>,
     px |-> <<0, 128>>, meta |-> {"tIME"}]

RgbPNG ==
    [fmt |-> "PNG", mode |-> "RGB", size |-> <<2, 1>>, pal |-> <<>>,
     px |-> << <<255, 128, 0>>, <<0, 0, 0>> >>, meta |-> {"pHYs"}]

RgbaPNG ==
    [fmt |-> "PNG", mode |-> "RGBA", size |-> <<1, 1>>, pal |-> <<>>,
     px |-> << <<10, 20, 30, 128>> >>, meta |-> {"tEXt"}]

\* A file the script has already written.
CleanPNG ==
    [fmt |-> "PNG", mode |-> "RGBA", size |-> <<2, 1>>, pal |-> <<>>,
     px |-> << <<1, 2, 3, 255>>, <<0, 0, 0, 0>> >>, meta |-> {}]

Samples == <<IndexedPNG, GrayPNG, RgbPNG, RgbaPNG, CleanPNG, Garbage>>

\* ------------------------------------------------------------ image codec
NoImage == [mode |-> "none", size |-> <<0, 0>>, pal |-> <<>>, px |-> <<>>, info |-> {}]

\* Image.open(path) raises unless the file is an image.
Decodable(f) == f.fmt = "PNG"

\* Image.open(path): the decoded image, the ancillary chunks in its info.
Decode(f) == [mode |-> f.mode, size |-> f.size, pal |-> f.pal, px |-> f.px, info |-> f.meta]

\* A bug: the channels are read in the order B, G, R, A.
PixelRGBASwapped(im, v) ==
    CASE im.mode = "RGBA" -> <<v[3], v[2], v[1], v[4]>>
      [] im.mode = "RGB" -> <<v[3], v[2], v[1], Opaque>>
      [] im.mode = "L" -> <<v, v, v, Opaque>>
      [] im.mode = "P" -> <<im.pal[v][3], im.pal[v][2], im.pal[v][1], im.pal[v][4]>>

\* A bug: a grayscale value fills the red channel only.
PixelRGBAGrayRed(im, v) ==
    CASE im.mode = "RGBA" -> v
      [] im.mode = "RGB" -> <<v[1], v[2], v[3], Opaque>>
      [] im.mode = "L" -> <<v, 0, 0, Opaque>>
      [] im.mode = "P" -> im.pal[v]

\* One pixel of im.convert("RGBA").
PixelRGBA(im, v) ==
    CASE im.mode = "RGBA" -> v
      [] im.mode = "RGB" -> <<v[1], v[2], v[3], Opaque>>
      [] im.mode = "L" -> <<v, v, v, Opaque>>
      [] im.mode = "P" -> im.pal[v]

\* im.convert("RGBA")
ConvertRGBA(im) ==
    [mode |-> "RGBA", size |-> im.size, pal |-> <<>>,
     px |-> [k \in 1..Len(im.px) |-> PixelRGBA(im, im.px[k])],
     info |-> im.info]

\* img.save(tmp, format="PNG", optimize=False): the file a complete write
\* leaves.  Text, time and physical-size chunks are not written; the colour
\* profile of the image's info is.
Encode(im) ==
    [fmt |-> "PNG", mode |-> im.mode, size |-> im.size, pal |-> im.pal,
     px |-> im.px, meta |-> im.info \cap {"iCCP"}]

\* What a failing save leaves at the temporary path: the file is untouched
\* (it could not be opened, or the library removed what it had created) or
\* it is partially written.
SaveFailOutcomes(old) == {old, Partial}

\* A bug: path.replace(tmp), the rename goes the wrong way.
RenameSwapped(f, src, dst) ==
    IF src = dst THEN f ELSE [f EXCEPT ![src] = f[dst], ![dst] = Absent]

\* os.replace(src, dst): dst gets src's content in one step, src is gone.
Rename(f, src, dst) ==
    IF src = dst THEN f ELSE [f EXCEPT ![dst] = f[src], ![src] = Absent]

\* -------------------------------------------------------------- the state
VARIABLES
    fs,            \* the file system: path -> content
    pilInstalled,  \* whether "from PIL import Image" succeeds
    run,           \* the number of the current run
    pc,            \* the position of the current run
    i,             \* the loop index into MIPMAP_DIRS
    img,           \* the local img
    err,           \* the stage whose exception is being handled
    out,           \* the lines printed so far, over all runs
    exits,         \* the exit status of each finished run
    faults,        \* the I/O faults injected so far
    pre,           \* the file system when the current run started
    orig           \* the file system at the very beginning

vars == <<fs, pilInstalled, run, pc, i, img, err, out, exits, faults, pre, orig>>

Line(kind, p) == [run |-> run, kind |-> kind, path |-> p]

NoPath == [dir |-> "", stem |-> "", suffix |-> ""]

CurPath == IconPath(MIPMAP_DIRS[i])

\* The initial file system: every subset of the five icons is present, the
\* present ones are taken from Samples in rotation; at most one directory
\* holds a partially written temporary file that an earlier run left.
InitialFs(present, rot, stale) ==
    [p \in Paths |->
        IF \E j \in present : p = IconPath(MIPMAP_DIRS[j])
        THEN LET j == CHOOSE j \in present : p = IconPath(MIPMAP_DIRS[j])
             IN Samples[((rot + j) % Len(Samples)) + 1]
        ELSE IF \E j \in stale : p = TmpPath(IconPath(MIPMAP_DIRS[j]))
        THEN Partial
        ELSE Absent]

Init ==
    /\ \E present \in SUBSET DirIdx, rot \in 1..Len(Samples),
          stale \in {{}} \cup {{j} : j \in DirIdx} :
           fs = InitialFs(present, rot, stale)
    /\ pilInstalled \in BOOLEAN
    /\ run = 1
    /\ pc = "import"
    /\ i = 1
    /\ img = NoImage
    /\ err = "none"
    /\ out = <<>>
    /\ exits = <<>>
    /\ faults = 0
    /\ pre = fs
    /\ orig = fs

\* ------------------------------------------------------------- the actions
\* Lines 8-12, PIL present: the module body goes on to main().
ImportOk ==
    /\ pc = "import"
    /\ pilInstalled
    /\ pc' = "loop"
    /\ i' = 1
    /\ UNCHANGED <<fs, pilInstalled, run, img, err, out, exits, faults, pre, orig>>

\* A bug: the hint is printed and the module body goes on to main().
ImportFailContinue ==
    /\ pc = "import"
    /\ ~pilInstalled
    /\ out' = Append(out, Line("Hint", NoPath))
    /\ pc' = "loop"
    /\ i' = 1
    /\ UNCHANGED <<fs, pilInstalled, run, img, err, exits, faults, pre, orig>>

\* Lines 10-12: ImportError, the hint, SystemExit(1).
ImportFail ==
    /\ pc = "import"
    /\ ~pilInstalled
    /\ out' = Append(out, Line("Hint", NoPath))
    /\ exits' = Append(exits, 1)
    /\ pc' = "exited"
    /\ UNCHANGED <<fs, pilInstalled, run, i, img, err, faults, pre, orig>>

\* A bug: the continue is missing, the try block is entered after the Skip line.
SkipMissingNoContinue ==
    /\ pc = "loop"
    /\ i <= Len(MIPMAP_DIRS)
    /\ fs[CurPath] = Absent
    /\ out' = Append(out, Line("Skip", CurPath))
    /\ pc' = "open"
    /\ UNCHANGED <<fs, pilInstalled, run, i, img, err, exits, faults, pre, orig>>

\* Lines 21-23: the icon is missing.
SkipMissing ==
    /\ pc = "loop"
    /\ i <= Len(MIPMAP_DIRS)
    /\ fs[CurPath] = Absent
    /\ out' = Append(out, Line("Skip", CurPath))
    /\ i' = i + 1
    /\ UNCHANGED <<fs, pilInstalled, run, pc, img, err, exits, faults, pre, orig>>

\* Lines 21, 24: the icon exists, the try block is entered.
EnterTry ==
    /\ pc = "loop"
    /\ i <= Len(MIPMAP_DIRS)
    /\ fs[CurPath] # Absent
    /\ pc' = "open"
    /\ UNCHANGED <<fs, pilInstalled, run, i, img, err, out, exits, faults, pre, orig>>

\* Line 25: Image.open(path).convert("RGBA").
OpenConvert ==
    /\ pc = "open"
    /\ IF Decodable(fs[CurPath])
       THEN /\ img' = ConvertRGBA(Decode(fs[CurPath]))
            /\ pc' = "save"
            /\ err' = err
       ELSE /\ err' = "decode"
            /\ pc' = "except"
            /\ img' = img
    /\ UNCHANGED <<fs, pilInstalled, run, i, out, exits, faults, pre, orig>>

\* Lines 27-28: the image is written to the temporary path.
SaveOk ==
    /\ pc = "save"
    /\ fs' = [fs EXCEPT ![TmpPath(CurPath)] = Encode(img)]
    /\ pc' = "replace"
    /\ UNCHANGED <<pilInstalled, run, i, img, err, out, exits, faults, pre, orig>>

\* Lines 27-28: the write raises.
SaveFail ==
    /\ pc = "save"
    /\ faults < MaxFaults
    /\ \E left \in SaveFailOutcomes(fs[TmpPath(CurPath)]) :
           fs' = [fs EXCEPT ![TmpPath(CurPath)] = left]
    /\ faults' = faults + 1
    /\ err' = "encode"
    /\ pc' = "except"
    /\ UNCHANGED <<pilInstalled, run, i, img, out, exits, pre, orig>>

\* Lines 29-30: the rename, then the OK line; the loop goes on.
ReplaceOk ==
    /\ pc = "replace"
    /\ fs' = Rename(fs, TmpPath(CurPath), CurPath)
    /\ out' = Append(out, Line("OK", CurPath))
    /\ i' = i + 1
    /\ pc' = "loop"
    /\ UNCHANGED <<pilInstalled, run, img, err, exits, faults, pre, orig>>

\* Line 29: the rename raises; it changed nothing.
ReplaceFail ==
    /\ pc = "replace"
    /\ faults < MaxFaults
    /\ faults' = faults + 1
    /\ err' = "replace"
    /\ pc' = "except"
    /\ UNCHANGED <<fs, pilInstalled, run, i, img, out, exits, pre, orig>>

\* A bug: the handler does not re-raise, the loop goes on.
ExceptSwallow ==
    /\ pc = "except"
    /\ out' = Append(out, Line("Error", CurPath))
    /\ i' = i + 1
    /\ pc' = "loop"
    /\ UNCHANGED <<fs, pilInstalled, run, img, err, exits, faults, pre, orig>>

\* A bug: the handler returns instead of re-raising, main() ends normally.
ExceptReturn ==
    /\ pc = "except"
    /\ out' = Append(out, Line("Error", CurPath))
    /\ exits' = Append(exits, 0)
    /\ pc' = "exited"
    /\ UNCHANGED <<fs, pilInstalled, run, i, img, err, faults, pre, orig>>

\* Lines 31-33: the Error line, the exception propagates out of main().
Except ==
    /\ pc = "except"
    /\ out' = Append(out, Line("Error", CurPath))
    /\ exits' = Append(exits, 1)
    /\ pc' = "exited"
    /\ UNCHANGED <<fs, pilInstalled, run, i, img, err, faults, pre, orig>>

\* Line 34: the loop is over.
Finish ==
    /\ pc = "loop"
    /\ i > Len(MIPMAP_DIRS)
    /\ out' = Append(out, Line("Done", NoPath))
    /\ exits' = Append(exits, 0)
    /\ pc' = "exited"
    /\ UNCHANGED <<fs, pilInstalled, run, i, img, err, faults, pre, orig>>

\* The script is started again on the file system the last run left.
Restart ==
    /\ pc = "exited"
    /\ run < MaxRuns
    /\ run' = run + 1
    /\ pc' = "import"
    /\ i' = 1
    /\ img' = NoImage
    /\ err' = "none"
    /\ pre' = fs
    /\ UNCHANGED <<fs, pilInstalled, out, exits, faults, orig>>

Next ==
    \/ ImportOk
    \/ ImportFail
    \/ SkipMissing
    \/ EnterTry
    \/ OpenConvert
    \/ SaveOk
    \/ SaveFail
    \/ ReplaceOk
    \/ ReplaceFail
    \/ Except
    \/ Finish
    \/ Restart

Spec == Init /\ [][Next]_vars

\* ------------------------------------------------- notions the claims use
Icon(j) == IconPath(MIPMAP_DIRS[j])

Tmp(j) == [dir |-> MIPMAP_DIRS[j], stem |-> "ic_launcher", suffix |-> ".tmp.png"]

\* The lines run r printed, in order.
LinesOf(r) == SelectSeq(out, LAMBDA l : l.run = r)

\* The Skip, OK and Error lines run r printed, in order.
FileLinesOf(r) == SelectSeq(out, LAMBDA l : l.run = r /\ l.kind \in {"Skip", "OK", "Error"})

HasLine(r, kind, p) == \E k \in 1..Len(out) : out[k] = [run |-> r, kind |-> kind, path |-> p]

CountLines(r, p) == Cardinality({k \in 1..Len(out) : out[k].run = r /\ out[k].path = p})

\* The colour a viewer shows at coordinate k of a PNG file, as red, green,
\* blue and alpha (the PNG format's reading of the stored sample).
ColourAt(f, k) ==
    IF f.mode = "P" THEN f.pal[f.px[k]]
    ELSE IF f.mode = "L" THEN <<f.px[k], f.px[k], f.px[k], 255>>
    ELSE IF f.mode = "RGB" THEN f.px[k] \o <<255>>
    ELSE f.px[k]

SameVisible(a, b) ==
    /\ a.size = b.size
    /\ Len(a.px) = Len(b.px)
    /\ \A k \in 1..Len(b.px) : ColourAt(a, k) = ColourAt(b, k)

\* The file one successful processing of f leaves.
Reencoded(f) == Encode(ConvertRGBA(Decode(f)))

\* The current run is over and ended in the except handler.
Aborted == pc = "exited" /\ err # "none"

\* The current run is over and printed Done.
Completed == pc = "exited" /\ HasLine(run, "Done", NoPath)

\* ------------------------------------------------------------- the claims

\* C1: at every instant of a run the target path of a present icon holds the
\* complete pre-run file or the complete re-encoded file; its content changes
\* only in the rename step, where it becomes the complete file written to the
\* temporary path; when the save to the temporary path failed the target is
\* the pre-run file.
C1_TargetOldOrNew ==
    /\ [](\A j \in DirIdx :
            pre[Icon(j)] # Absent =>
              /\ \/ fs[Icon(j)] = pre[Icon(j)]
                 \/ Decodable(pre[Icon(j)]) /\ fs[Icon(j)] = Reencoded(pre[Icon(j)])
              /\ (pc = "except" /\ err = "encode" /\ i = j) => fs[Icon(j)] = pre[Icon(j)])
    /\ [][\A j \in DirIdx :
            fs'[Icon(j)] # fs[Icon(j)] =>
              /\ pc = "replace" /\ i = j
              /\ fs'[Icon(j)] = fs[Tmp(j)]
              /\ fs[Tmp(j)] = Reencoded(pre[Icon(j)])]_vars

\* C1 witness: the save of a present icon failed and left a partial
\* temporary file.
C1_Witness ==
    /\ pc = "except" /\ err = "encode"
    /\ pre[Icon(i)] # Absent
    /\ fs[Tmp(i)] = Partial /\ pre[Tmp(i)] = Absent

\* C2: when processing a present file raised, the run printed exactly one
\* Error line, for that path, as its last line, exited non-zero, printed no
\* Done, and no later directory was examined, reported or modified.
C2_ErrorAborts ==
    /\ LET L == LinesOf(run)
       IN \A k \in 1..Len(L) :
             L[k].kind = "Error" =>
                /\ k = Len(L)
                /\ pc = "exited"
                /\ exits[run] # 0
    /\ pc = "except" => pre[Icon(i)] # Absent
    /\ Aborted =>
          /\ Len(LinesOf(run)) > 0
          /\ LinesOf(run)[Len(LinesOf(run))] = [run |-> run, kind |-> "Error", path |-> Icon(i)]
          /\ Cardinality({k \in 1..Len(out) : out[k].run = run /\ out[k].kind = "Error"}) = 1
          /\ Len(exits) = run /\ exits[run] # 0
          /\ ~HasLine(run, "Done", NoPath)
          /\ \A j \in DirIdx : j > i =>
                /\ CountLines(run, Icon(j)) = 0
                /\ fs[Icon(j)] = pre[Icon(j)]
                /\ fs[Tmp(j)] = pre[Tmp(j)]

\* C2 witness: a run aborted at a directory that has a present icon after it.
C2_Witness ==
    /\ Aborted
    /\ \E j \in DirIdx : j > i /\ pre[Icon(j)] # Absent

\* C3: the Skip, OK and Error lines of a run come in the order mdpi,
\* hdpi, xhdpi, xxhdpi, xxxhdpi, one line per directory; Done is printed
\* after all five, and only when each of them is a Skip or an OK line.
C3_FixedOrder ==
       LET F == FileLinesOf(run)
           L == LinesOf(run)
           order == <<"mipmap-mdpi", "mipmap-hdpi", "mipmap-xhdpi",
                      "mipmap-xxhdpi", "mipmap-xxxhdpi">>
       IN /\ Len(F) <= 5
          /\ \A k \in 1..Len(F) : F[k].path.dir = order[k] /\ F[k].path = Icon(k)
          /\ \A k \in 1..Len(L) :
                L[k].kind = "Done" =>
                   /\ k = Len(L)
                   /\ Len(F) = 5
                   /\ \A m \in 1..5 : F[m].kind \in {"Skip", "OK"}

\* C3 witness: a completed run with both Skip and OK lines.
C3_Witness ==
    /\ Completed
    /\ \E j, k \in DirIdx : HasLine(run, "Skip", Icon(j)) /\ HasLine(run, "OK", Icon(k))

\* C4: a directory whose icon is absent gets exactly one line, a Skip line,
\* once the loop has passed it; no file of that directory is created or
\* modified; the loop goes on to the next directory and the absent icon never
\* enters the try block or the except handler.
C4_SkipMissing ==
    \A j \in DirIdx :
       pre[Icon(j)] = Absent =>
          /\ fs[Icon(j)] = Absent
          /\ fs[Tmp(j)] = pre[Tmp(j)]
          /\ \A k \in 1..Len(out) :
                (out[k].run = run /\ out[k].path = Icon(j)) => out[k].kind = "Skip"
          /\ CountLines(run, Icon(j)) = (IF pilInstalled /\ pc # "import" /\ j < i THEN 1 ELSE 0)
          /\ (pc \in {"open", "save", "replace", "except"}) => i # j
          /\ Aborted => i # j
          /\ (pilInstalled /\ pc = "exited" /\ err = "none") => HasLine(run, "Skip", Icon(j))

\* C4 witness: the loop has passed an absent icon and works on a later one.
C4_Witness ==
    /\ pc = "save"
    /\ \E j \in DirIdx : j < i /\ pre[Icon(j)] = Absent /\ HasLine(run, "Skip", Icon(j))

\* C5: a run that is over exited with status 0 exactly when each of the five
\* directories got a Skip or an OK line, and then Done is its last line.
C5_ExitZeroIffDone ==
    pc = "exited" =>
       LET L == LinesOf(run)
           allFine == \A j \in DirIdx :
                         HasLine(run, "Skip", Icon(j)) \/ HasLine(run, "OK", Icon(j))
       IN /\ Len(exits) = run
          /\ exits[run] = 0 <=> allFine
          /\ allFine => L[Len(L)] = [run |-> run, kind |-> "Done", path |-> NoPath]

\* C5 witness: a run with all five icons absent ended with status 0.
C5_Witness ==
    /\ pc = "exited"
    /\ \A j \in DirIdx : HasLine(run, "Skip", Icon(j))
    /\ exits[run] = 0

C7_Idempotent ==
    \A j \in DirIdx :
       (run > 1 /\ HasLine(run - 1, "OK", Icon(j))) =>
          /\ ~HasLine(run, "Skip", Icon(j))
          /\ (pc \in {"except", "exited"} /\ i = j) => err # "decode"
          /\ (pc \in {"loop", "exited"} /\ i > j) => HasLine(run, "OK", Icon(j))
          /\ HasLine(run, "OK", Icon(j)) =>
                /\ fs[Icon(j)].mode = "RGBA"
                /\ pre[Icon(j)].mode = "RGBA"
                /\ SameVisible(fs[Icon(j)], pre[Icon(j)])

\* C7 witness: an icon that was not RGBA at first got OK in two runs in a row.
C7_Witness ==
    /\ run > 1
    /\ \E j \in DirIdx :
          /\ HasLine(run - 1, "OK", Icon(j))
          /\ HasLine(run, "OK", Icon(j))
          /\ orig[Icon(j)].mode # "RGBA"

\* C8: when a run aborts at directory k, every present icon before k is the
\* re-encoded pre-run file and every icon from k on is the pre-run file; a
\* later run that completes leaves every icon as the re-encoding of the file
\* the first run found, which is what one uninterrupted run leaves.
C8_RestartSafe ==
    /\ Aborted =>
          \A j \in DirIdx :
             /\ (j < i /\ pre[Icon(j)] # Absent) =>
                   Decodable(pre[Icon(j)]) /\ fs[Icon(j)] = Reencoded(pre[Icon(j)])
             /\ j >= i => fs[Icon(j)] = pre[Icon(j)]
    /\ (Completed /\ \E r \in 1..(run - 1) : exits[r] # 0) =>
          \A j \in DirIdx :
             IF orig[Icon(j)] = Absent
             THEN fs[Icon(j)] = Absent
             ELSE /\ Decodable(orig[Icon(j)])
                  /\ fs[Icon(j)] = Reencoded(orig[Icon(j)])
                  /\ fs[Icon(j)].mode = "RGBA"
                  /\ SameVisible(fs[Icon(j)], orig[Icon(j)])

\* C8 witness: a run aborted at a directory with a processed icon before it,
\* and the next run completed.
C8_Witness ==
    /\ Completed
    /\ run > 1
    /\ \E j, k \in DirIdx :
          /\ j < k
          /\ HasLine(run - 1, "OK", Icon(j))
          /\ HasLine(run - 1, "Error", Icon(k))
          /\ orig[Icon(k)].mode # "RGBA"

\* C9: when the import fails, every run prints the hint and nothing else,
\* exits with status 1 without entering main(), and no file is read, created
\* or modified.
C9_ImportFailTouchesNothing ==
    ~pilInstalled =>
       /\ fs = orig
       /\ img = NoImage
       /\ pc \in {"import", "exited"}
       /\ \A k \in 1..Len(out) : out[k].kind = "Hint"
       /\ \A r \in 1..Len(exits) : exits[r] = 1
       /\ pc = "exited" => Len(exits) = run /\ Len(LinesOf(run)) = 1
       /\ pc = "import" => Len(LinesOf(run)) = 0

\* C9 witness: a run without the library has exited while icons are present.
C9_Witness ==
    /\ ~pilInstalled
    /\ pc = "exited"
    /\ \E j \in DirIdx : fs[Icon(j)] # Absent

\* C10: whenever a run has ended, with Done or with a fatal error, no
\* temporary sibling file written by that run remains in any directory.
C10_NoTempLeft ==
    pc = "exited" =>
       \A j \in DirIdx : fs[Tmp(j)] = Absent \/ fs[Tmp(j)] = pre[Tmp(j)]

====
